---- MODULE Spec2Model ----
(***************************************************************************)
(* Model of scripts/tools/document_organizer.py (class DocumentAnalyzer).  *)
(*                                                                         *)
(* Strings are sequences of one-character strings, so that substring       *)
(* tests, str.replace, str.lower, slicing and str.split are computed       *)
(* character by character as Python computes them.                         *)
(***************************************************************************)
EXTENDS Integers, Sequences, FiniteSets, TLC

VARIABLES
    pc,           \* position in DocumentAnalyzer.run / in a function-level run
    fs,           \* input tree: path of each *.md file under input_dir -> its content
    out_dirs,     \* directories of the output tree
    documents,    \* self.documents
    patterns,     \* self.patterns
    report,       \* the report dict built by generate_analysis_report
    content_map,  \* self.content_map
    rename_map,   \* rename_map of reorganize_documents
    out_files,    \* output tree: target path -> content of the file there
    input,        \* argument(s) of the function under study
    output        \* value(s) returned by the function under study

vars == <<pc, fs, out_dirs, documents, patterns, report, content_map, rename_map,
          out_files, input, output>>

(***************************************************************************)
(* Python string primitives                                                *)
(***************************************************************************)
UpperChars == <<"A","B","C","D","E","F","G","H","I","J","K","L","M",
                "N","O","P","Q","R","S","T","U","V","W","X","Y","Z">>

LowerChars == <<"a","b","c","d","e","f","g","h","i","j","k","l","m",
                "n","o","p","q","r","s","t","u","v","w","x","y","z">>

UpperSet == { UpperChars[i] : i \in 1..26 }

LowerSet == { LowerChars[i] : i \in 1..26 }

LowerOf == [c \in UpperSet |-> LowerChars[CHOOSE i \in 1..26 : UpperChars[i] = c]]

IsUpperChar(c) == c \in UpperSet

IsLowerChar(c) == c \in LowerSet

LowerChar(c) == IF c \in UpperSet THEN LowerOf[c] ELSE c

\* str.lower()
lower(s) == SubSeq([i \in 1..Len(s) |-> LowerChar(s[i])], 1, Len(s))

\* str.isupper(): at least one cased character and no lowercase one
isupper(s) ==
    /\ \E i \in 1..Len(s) : IsUpperChar(s[i])
    /\ \A i \in 1..Len(s) : ~IsLowerChar(s[i])

\* s[i:i+len(p)] == p   (1-based i, with i + len(p) - 1 <= len(s))
MatchAt(s, p, i) == \A j \in 1..Len(p) : s[i + j - 1] = p[j]

\* p in s
Contains(s, p) == \E i \in 1..(Len(s) - Len(p) + 1) : MatchAt(s, p, i)

\* s + t + u
Cat3(s, t, u) == s \o t \o u

\* str.replace(old, new): leftmost non-overlapping occurrences, old non-empty
RECURSIVE replace(_, _, _)
replace(s, old, new) ==
    IF Len(s) < Len(old) THEN s
    ELSE IF MatchAt(s, old, 1)
         THEN new \o replace(SubSeq(s, Len(old) + 1, Len(s)), old, new)
         ELSE <<s[1]>> \o replace(Tail(s), old, new)

\* re.sub(r'-{2,}', '-', s): every run of two or more hyphens becomes one
RECURSIVE CollapseHyphens(_)
CollapseHyphens(s) ==
    IF Len(s) < 2 THEN s
    ELSE IF s[1] = "-" /\ s[2] = "-"
         THEN CollapseHyphens(Tail(s))
         ELSE <<s[1]>> \o CollapseHyphens(Tail(s))

\* re.sub(r'^-|-$', '', s): one hyphen off the front, one off the end
StripEdgeHyphens(s) ==
    LET a == IF Len(s) > 0 /\ s[1] = "-" THEN Tail(s) ELSE s
    IN  IF Len(a) > 0 /\ a[Len(a)] = "-" THEN SubSeq(a, 1, Len(a) - 1) ELSE a

\* s[:n]
Prefix(s, n) == SubSeq(s, 1, IF Len(s) < n THEN Len(s) ELSE n)

\* s.rsplit('-', 1)[0]
RSplitHyphenHead(s) ==
    IF \E i \in 1..Len(s) : s[i] = "-"
    THEN LET k == CHOOSE i \in 1..Len(s) :
                     /\ s[i] = "-"
                     /\ \A j \in (i + 1)..Len(s) : s[j] # "-"
         IN  SubSeq(s, 1, k - 1)
    ELSE s

(***************************************************************************)
(* generate_clean_filename                                                 *)
(***************************************************************************)
NameCap == 50

DotMd == <<".","m","d">>

README == <<"R","E","A","D","M","E">>

readme_md == <<"r","e","a","d","m","e",".","m","d">>

generate_clean_filename(doc) ==
    LET name0 == doc.name
        name1 == replace(name0, DotMd, <<>>)
        name2 == replace(name1, <<"_">>, <<"-">>)
        name3 == lower(name2)
        name4 == CollapseHyphens(name3)
        name5 == StripEdgeHyphens(name4)
        name6 == IF Len(name5) > NameCap
                 THEN RSplitHyphenHead(Prefix(name5, NameCap))
                 ELSE name5
    IN  IF Contains(name0, README) THEN readme_md ELSE name6 \o DotMd

(***************************************************************************)
(* Paths: str(file_path) is a character sequence; Path.name is the part    *)
(* after the last "/" and Path.parent the part before it.                  *)
(***************************************************************************)
LastSlash(p) ==
    CHOOSE i \in 0..Len(p) :
        /\ i > 0 => p[i] = "/"
        /\ \A j \in (i + 1)..Len(p) : p[j] # "/"

\* file_path.name
PathName(p) == SubSeq(p, LastSlash(p) + 1, Len(p))

\* file_path.parent
PathParent(p) == SubSeq(p, 1, LastSlash(p) - 1)

\* directory / name
JoinPath(d, n) == Cat3(d, <<"/">>, n)

(***************************************************************************)
(* categorize_vsm_document                                                 *)
(***************************************************************************)
categorize_vsm_document(content, file_path) ==
    LET filename_lower == lower(PathName(file_path))
        content_lower  == lower(content)
        path_str       == lower(file_path)
        InPath(p)      == Contains(path_str, p)
        InName(p)      == Contains(filename_lower, p)
        InContent(p)   == Contains(content_lower, p)
    IN  IF InPath(<<"/","a","p","i">>)
           \/ InName(<<"a","p","i","_","d","o","c","u","m","e","n","t","a","t","i","o","n">>)
        THEN "api_reference"
        ELSE IF InPath(<<"/","m","c","p">>) \/ InName(<<"m","c","p">>)
        THEN "mcp_integration"
        ELSE IF InPath(<<"/","t","e","s","t","i","n","g">>) \/ InName(<<"t","e","s","t">>)
        THEN "testing"
        ELSE IF InPath(<<"/","a","r","c","h","i","v","e">>)
        THEN "archive"
        ELSE IF InName(<<"h","i","v","e">>)
                /\ InName(<<"a","r","c","h","i","t","e","c","t","u","r","e">>)
        THEN "hive_architecture"
        ELSE IF InName(<<"a","r","c","h","i","t","e","c","t","u","r","e">>)
                \/ InName(<<"d","e","s","i","g","n">>)
        THEN "architecture"
        ELSE IF InName(<<"c","l","e","a","n","u","p">>) \/ InName(<<"p","l","a","n">>)
        THEN "planning"
        ELSE IF InName(<<"t","e","s","t">>) \/ InName(<<"r","e","s","u","l","t">>)
        THEN "testing"
        ELSE IF InName(<<"p","r","o","o","f">>)
                \/ InName(<<"v","a","l","i","d","a","t","i","o","n">>)
        THEN "archive"
        ELSE IF InName(<<"f","i","n","a","l">>)
                \/ InName(<<"c","o","m","p","l","e","t","e">>)
        THEN "archive"
        ELSE IF InContent(<<"e","n","d","p","o","i","n","t">>)
                \/ InContent(<<"h","t","t","p">>)
        THEN "api_reference"
        ELSE IF InContent(<<"t","e","s","t">>)
                /\ (InContent(<<"p","a","s","s">>) \/ InContent(<<"f","a","i","l">>))
        THEN "testing"
        ELSE IF InContent(<<"s","y","s","t","e","m"," ","1">>)
                \/ InContent(<<"s","y","s","t","e","m","1">>)
        THEN "vsm_systems"
        ELSE "general"

(***************************************************************************)
(* assess_quality                                                          *)
(***************************************************************************)
ShortLen == 500

IsSpace(c) == c \in {" ", "\n", "\t"}

\* re.search(r'shit|fuck|damn', c)
SearchProfanity(c) ==
    \E i \in 1..(Len(c) - 3) :
        \/ MatchAt(c, <<"s","h","i","t">>, i)
        \/ MatchAt(c, <<"f","u","c","k">>, i)
        \/ MatchAt(c, <<"d","a","m","n">>, i)

\* re.search(r'shit|fuck|damn', content.lower())
HasProfanity(content) == SearchProfanity(lower(content))

\* re.search(r'^#\s+', content, re.MULTILINE)
HasTopHeader(content) ==
    \E i \in 1..(Len(content) - 1) :
        /\ i = 1 \/ content[i - 1] = "\n"
        /\ content[i] = "#"
        /\ IsSpace(content[i + 1])

HasTodo(content) ==
    \/ Contains(content, <<"T","O","D","O">>)
    \/ Contains(content, <<"F","I","X","M","E">>)

PoorFilename(filename) == isupper(filename) \/ Contains(filename, <<"_">>)

Max(a, b) == IF a >= b THEN a ELSE b

\* assess_quality with the filename deduction added instead of subtracted
assess_quality_plus5(content, filename) ==
    LET s0 == 100
        s1 == IF HasTodo(content) THEN s0 - 10 ELSE s0
        s2 == IF HasProfanity(content) THEN s1 - 20 ELSE s1
        s3 == IF Len(content) < ShortLen THEN s2 - 15 ELSE s2
        s4 == IF ~HasTopHeader(content) THEN s3 - 10 ELSE s3
        s5 == IF PoorFilename(filename) THEN s4 + 5 ELSE s4
    IN  Max(0, s5)

\* assess_quality with a deduction of 10 for a short document
assess_quality_short10(content, filename) ==
    LET s0 == 100
        s1 == IF HasTodo(content) THEN s0 - 10 ELSE s0
        s2 == IF HasProfanity(content) THEN s1 - 20 ELSE s1
        s3 == IF Len(content) < ShortLen THEN s2 - 10 ELSE s2
        s4 == IF ~HasTopHeader(content) THEN s3 - 10 ELSE s3
        s5 == IF PoorFilename(filename) THEN s4 - 5 ELSE s4
    IN  Max(0, s5)

\* assess_quality with len(content) <= 500 as the test for a short document
assess_quality_le500(content, filename) ==
    LET s0 == 100
        s1 == IF HasTodo(content) THEN s0 - 10 ELSE s0
        s2 == IF HasProfanity(content) THEN s1 - 20 ELSE s1
        s3 == IF Len(content) <= ShortLen THEN s2 - 15 ELSE s2
        s4 == IF ~HasTopHeader(content) THEN s3 - 10 ELSE s3
        s5 == IF PoorFilename(filename) THEN s4 - 5 ELSE s4
    IN  Max(0, s5)

assess_quality(content, filename) ==
    LET s0 == 100
        s1 == IF HasTodo(content) THEN s0 - 10 ELSE s0
        s2 == IF HasProfanity(content) THEN s1 - 20 ELSE s1
        s3 == IF Len(content) < ShortLen THEN s2 - 15 ELSE s2
        s4 == IF ~HasTopHeader(content) THEN s3 - 10 ELSE s3
        s5 == IF PoorFilename(filename) THEN s4 - 5 ELSE s4
    IN  Max(0, s5)

(***************************************************************************)
(* Inputs of the filename runs: stem + padding + stem + ".md"              *)
(***************************************************************************)
NameStems ==
    { <<>>, <<"a">>, <<"A","_","b">>, <<"-">>, <<"_","_">>, <<"x","-","-","y">>,
      README, DotMd, <<".","M","D">>, <<".","m",".","m","d","d">>,
      <<"-","z">> }

NamePads == {0, 1, 44, 45, 46, 47, 48, 49, 50}

\* c * n
Pad(c, n) == SubSeq([i \in 1..n |-> c], 1, n)

FileNames ==
    { Cat3(a, Pad("q", n), b) \o DotMd : a \in NameStems, b \in NameStems, n \in NamePads }

Idle ==
    /\ fs = <<>>
    /\ out_dirs = {}
    /\ documents = <<>>
    /\ patterns = <<>>
    /\ report = <<>>
    /\ content_map = <<>>
    /\ rename_map = <<>>
    /\ out_files = <<>>

PipelineUnchanged ==
    UNCHANGED <<fs, out_dirs, documents, patterns, report, content_map, rename_map,
                out_files>>

InitClean ==
    /\ pc = "clean_first"
    /\ input \in { [name |-> n] : n \in FileNames }
    /\ output = <<>>
    /\ Idle

\* generate_clean_filename applied to a document name
CleanFirst ==
    /\ pc = "clean_first"
    /\ output' = <<generate_clean_filename(input)>>
    /\ pc' = "clean_second"
    /\ UNCHANGED input
    /\ PipelineUnchanged

\* generate_clean_filename applied to the name it returned
CleanSecond ==
    /\ pc = "clean_second"
    /\ output' = Append(output, generate_clean_filename([name |-> output[1]]))
    /\ pc' = "clean_done"
    /\ UNCHANGED input
    /\ PipelineUnchanged

NextClean == CleanFirst \/ CleanSecond

SpecClean == InitClean /\ [][NextClean]_vars

\* C1: normalizing an already-normalized name returns the same name.
C1_Idempotent == pc = "clean_done" => output[2] = output[1]

(***************************************************************************)
(* Runs of categorize_vsm_document on one document                         *)
(***************************************************************************)
input_dir == <<"d","o","c","s">>

CatDirs ==
    { input_dir,
      input_dir \o <<"/","a","p","i">>,
      input_dir \o <<"/","m","c","p">>,
      input_dir \o <<"/","t","e","s","t","i","n","g">>,
      input_dir \o <<"/","A","r","c","h","i","v","e">>,
      input_dir \o <<"/","g","u","i","d","e","s">> }

CatNames ==
    { <<"n","o","t","e","s">> \o DotMd,
      <<"m","y","_","M","C","P">> \o DotMd,
      <<"l","a","t","e","s","t">> \o DotMd,
      <<"a","p","i","_","d","o","c","u","m","e","n","t","a","t","i","o","n">> \o DotMd,
      <<"h","i","v","e","_","a","r","c","h","i","t","e","c","t","u","r","e">> \o DotMd,
      <<"D","e","s","i","g","n">> \o DotMd,
      <<"p","l","a","n">> \o DotMd,
      <<"r","e","s","u","l","t","s">> \o DotMd,
      <<"p","r","o","o","f">> \o DotMd,
      <<"f","i","n","a","l">> \o DotMd }

CatContents ==
    { <<>>,
      <<"a","n"," ","E","n","d","p","o","i","n","t">>,
      <<"h","t","t","p",":","/","/","x">>,
      <<"t","e","s","t","s"," ","p","a","s","s">>,
      <<"T","e","s","t"," ","f","a","i","l","e","d">>,
      <<"t","e","s","t">>,
      <<"S","y","s","t","e","m"," ","1">>,
      <<"s","y","s","t","e","m","1"," ","h","t","t","p">>,
      <<"s","y","s","t","e","m","1">> }

InitCat ==
    /\ pc = "cat_call"
    /\ input \in { [content |-> c, file_path |-> JoinPath(d, n)] :
                     c \in CatContents, d \in CatDirs, n \in CatNames }
    /\ output = <<>>
    /\ Idle

\* scan_documents line 81: the category of one document
Categorize ==
    /\ pc = "cat_call"
    /\ output' = categorize_vsm_document(input.content, input.file_path)
    /\ pc' = "cat_done"
    /\ UNCHANGED input
    /\ PipelineUnchanged

NextCat == Categorize

SpecCat == InitCat /\ [][NextCat]_vars

\* The rule chain as it is documented: every path-substring rule, then every
\* filename-substring rule, then every content-substring rule.
PathRuleCategory(file_path) ==
    LET path_str == lower(file_path)
    IN  IF Contains(path_str, <<"/","a","p","i">>) THEN "api_reference"
        ELSE IF Contains(path_str, <<"/","m","c","p">>) THEN "mcp_integration"
        ELSE IF Contains(path_str, <<"/","t","e","s","t","i","n","g">>) THEN "testing"
        ELSE IF Contains(path_str, <<"/","a","r","c","h","i","v","e">>) THEN "archive"
        ELSE "none"

FilenameRuleMatches(file_path) ==
    LET n == lower(PathName(file_path))
    IN  \E p \in { <<"a","p","i","_","d","o","c","u","m","e","n","t","a","t","i","o","n">>,
                   <<"m","c","p">>, <<"t","e","s","t">>,
                   <<"a","r","c","h","i","t","e","c","t","u","r","e">>,
                   <<"d","e","s","i","g","n">>, <<"c","l","e","a","n","u","p">>,
                   <<"p","l","a","n">>, <<"r","e","s","u","l","t">>,
                   <<"p","r","o","o","f">>, <<"v","a","l","i","d","a","t","i","o","n">>,
                   <<"f","i","n","a","l">>, <<"c","o","m","p","l","e","t","e">> } :
           Contains(n, p)

ContentRuleCategory(content) ==
    LET c == lower(content)
    IN  IF Contains(c, <<"e","n","d","p","o","i","n","t">>) \/ Contains(c, <<"h","t","t","p">>)
        THEN "api_reference"
        ELSE IF Contains(c, <<"t","e","s","t">>)
                /\ (Contains(c, <<"p","a","s","s">>) \/ Contains(c, <<"f","a","i","l">>))
        THEN "testing"
        ELSE IF Contains(c, <<"s","y","s","t","e","m"," ","1">>)
                \/ Contains(c, <<"s","y","s","t","e","m","1">>)
        THEN "vsm_systems"
        ELSE "none"

\* C2: path rules come first, then filename rules, then content rules: a
\* document that a path rule matches gets the category of the first matching
\* path rule; a content rule decides only when no path or filename rule
\* matches; the result is "general" exactly when no rule matches.
C2_PathThenFilenameThenContent ==
    pc = "cat_done" =>
        LET byPath == PathRuleCategory(input.file_path)
            byName == FilenameRuleMatches(input.file_path)
            byText == ContentRuleCategory(input.content)
        IN  /\ (byPath # "none") => (output = byPath)
            /\ (byPath = "none" /\ ~byName /\ byText # "none") => (output = byText)
            /\ (output = "general") <=> (byPath = "none" /\ ~byName /\ byText = "none")

(***************************************************************************)
(* Runs of assess_quality on two documents that share a filename           *)
(***************************************************************************)
MaxContentLen == 501

QHeaders ==
    { <<>>, <<"#"," ","T","\n">>, <<"#","#"," ","T","\n">>, <<"i","\n","#","\t","T","\n">> }

QBodies ==
    { <<>>, <<"T","O","D","O"," ">>, <<"D","a","m","n"," ">>,
      <<"F","I","X","M","E"," ","f","u","c","k"," ">> }

QLengths == {0, ShortLen - 1, ShortLen, MaxContentLen}

\* header + body, padded with "x" up to n characters
MakeContent(h, b, n) == Cat3(h, b, Pad("x", n - Len(h \o b)))

QContents == { MakeContent(h, b, n) : h \in QHeaders, b \in QBodies, n \in QLengths }

QLongContents == { c \in QContents : Len(c) >= ShortLen }

QFilenames ==
    { <<"n","o","t","e","s">> \o DotMd,
      <<"m","y","_","d","o","c">> \o DotMd,
      <<"N","O","T","E","S",".","M","D">>,
      <<"R","E","A","D","M","E">> \o DotMd }

InitQuality ==
    /\ pc = "quality_call"
    /\ input \in { [a |-> c1, b |-> c2, filename |-> f] :
                     c1 \in QContents, c2 \in QLongContents, f \in QFilenames }
    /\ output = <<>>
    /\ Idle

\* scan_documents line 83, for two documents
AssessBoth ==
    /\ pc = "quality_call"
    /\ output' = [a |-> assess_quality(input.a, input.filename),
                  b |-> assess_quality(input.b, input.filename)]
    /\ pc' = "quality_done"
    /\ UNCHANGED input
    /\ PipelineUnchanged

NextQuality == AssessBoth

SpecQuality == InitQuality /\ [][NextQuality]_vars

\* C6: every quality score is an integer from 0 to 100.
C6_ScoreInRange ==
    pc = "quality_done" => output.a \in 0..100 /\ output.b \in 0..100

C6_Witness ==
    /\ pc = "quality_done"
    /\ HasTodo(input.a) /\ HasProfanity(input.a) /\ Len(input.a) < ShortLen
    /\ ~HasTopHeader(input.a) /\ PoorFilename(input.filename)
    /\ output.a = 40

SameOtherDeductions(c1, c2) ==
    /\ HasTodo(c1) <=> HasTodo(c2)
    /\ HasProfanity(c1) <=> HasProfanity(c2)
    /\ HasTopHeader(c1) <=> HasTopHeader(c2)

\* C7: with the same other deductions, a document under 500 characters
\* scores at least 15 less than one of 500 characters or more.
C7_ShortCostsFifteen ==
    ( /\ pc = "quality_done"
      /\ SameOtherDeductions(input.a, input.b)
      /\ Len(input.a) < ShortLen
      /\ Len(input.b) >= ShortLen )
    => output.a <= output.b - 15

C7_Witness ==
    /\ pc = "quality_done"
    /\ SameOtherDeductions(input.a, input.b)
    /\ HasTodo(input.a) /\ HasProfanity(input.a) /\ ~HasTopHeader(input.a)
    /\ PoorFilename(input.filename)
    /\ Len(input.a) = ShortLen - 1
    /\ Len(input.b) = ShortLen
    /\ output.a = 40 /\ output.b = 55

\* C9 as stated: no profanity, 500 characters or more, a top-level header
\* and a well-styled filename give exactly 100.
C9_CleanScoresHundred ==
    ( /\ pc = "quality_done"
      /\ ~HasProfanity(input.a)
      /\ Len(input.a) >= ShortLen
      /\ HasTopHeader(input.a)
      /\ ~PoorFilename(input.filename) )
    => output.a = 100

\* C9 amended: no TODO/FIXME marker, no profanity, 500 characters or more,
\* a top-level header and a well-styled filename give exactly 100.
C9_NoDeductionScoresHundred ==
    ( /\ pc = "quality_done"
      /\ ~HasTodo(input.a)
      /\ ~HasProfanity(input.a)
      /\ Len(input.a) >= ShortLen
      /\ HasTopHeader(input.a)
      /\ ~PoorFilename(input.filename) )
    => output.a = 100

C9_Witness ==
    /\ pc = "quality_done"
    /\ ~HasTodo(input.a) /\ ~HasProfanity(input.a) /\ Len(input.a) = ShortLen
    /\ HasTopHeader(input.a) /\ ~PoorFilename(input.filename)
    /\ output.a = 100

(***************************************************************************)
(* The pipeline of DocumentAnalyzer.run                                    *)
(***************************************************************************)
output_dir == <<"d","o","c","s","_","o","r","g","a","n","i","z","e","d">>

\* dirs of setup_directories
dirs ==
    { <<"0","1","_","o","v","e","r","v","i","e","w">>,
      <<"0","2","_","a","r","c","h","i","t","e","c","t","u","r","e","/","v","s","m","_","s","y","s","t","e","m","s">>,
      <<"0","2","_","a","r","c","h","i","t","e","c","t","u","r","e","/","m","c","p","_","i","n","t","e","g","r","a","t","i","o","n">>,
      <<"0","2","_","a","r","c","h","i","t","e","c","t","u","r","e","/","h","i","v","e","_","m","i","n","d">>,
      <<"0","3","_","a","p","i","_","r","e","f","e","r","e","n","c","e","/","e","n","d","p","o","i","n","t","s">>,
      <<"0","3","_","a","p","i","_","r","e","f","e","r","e","n","c","e","/","s","c","h","e","m","a","s">>,
      <<"0","4","_","d","e","v","e","l","o","p","m","e","n","t","/","s","e","t","u","p">>,
      <<"0","4","_","d","e","v","e","l","o","p","m","e","n","t","/","t","e","s","t","i","n","g">>,
      <<"0","4","_","d","e","v","e","l","o","p","m","e","n","t","/","d","e","p","l","o","y","m","e","n","t">>,
      <<"0","5","_","u","s","e","r","_","g","u","i","d","e","s","/","g","e","t","t","i","n","g","_","s","t","a","r","t","e","d">>,
      <<"0","5","_","u","s","e","r","_","g","u","i","d","e","s","/","t","u","t","o","r","i","a","l","s">>,
      <<"0","6","_","r","e","f","e","r","e","n","c","e","s","/","e","x","t","e","r","n","a","l","_","d","o","c","s">>,
      <<"0","6","_","r","e","f","e","r","e","n","c","e","s","/","s","p","e","c","i","f","i","c","a","t","i","o","n","s">>,
      <<"0","7","_","p","r","o","j","e","c","t","_","d","o","c","s","/","p","l","a","n","n","i","n","g">>,
      <<"0","7","_","p","r","o","j","e","c","t","_","d","o","c","s","/","d","e","c","i","s","i","o","n","s">>,
      <<"0","8","_","a","r","c","h","i","v","e","/","l","e","g","a","c","y">>,
      <<"0","8","_","a","r","c","h","i","v","e","/","s","u","p","e","r","s","e","d","e","d">> }

\* category_mapping.get(category, '08_archive/legacy')
category_mapping(category) ==
    CASE category = "api_reference" ->
           <<"0","3","_","a","p","i","_","r","e","f","e","r","e","n","c","e","/","e","n","d","p","o","i","n","t","s">>
      [] category = "testing" ->
           <<"0","4","_","d","e","v","e","l","o","p","m","e","n","t","/","t","e","s","t","i","n","g">>
      [] category = "architecture" ->
           <<"0","2","_","a","r","c","h","i","t","e","c","t","u","r","e","/","v","s","m","_","s","y","s","t","e","m","s">>
      [] category = "hive_architecture" ->
           <<"0","2","_","a","r","c","h","i","t","e","c","t","u","r","e","/","h","i","v","e","_","m","i","n","d">>
      [] category = "mcp_integration" ->
           <<"0","2","_","a","r","c","h","i","t","e","c","t","u","r","e","/","m","c","p","_","i","n","t","e","g","r","a","t","i","o","n">>
      [] category = "planning" ->
           <<"0","7","_","p","r","o","j","e","c","t","_","d","o","c","s","/","p","l","a","n","n","i","n","g">>
      [] category = "archive" ->
           <<"0","8","_","a","r","c","h","i","v","e","/","l","e","g","a","c","y">>
      [] category = "vsm_systems" ->
           <<"0","2","_","a","r","c","h","i","t","e","c","t","u","r","e","/","v","s","m","_","s","y","s","t","e","m","s">>
      [] category = "general" ->
           <<"0","1","_","o","v","e","r","v","i","e","w">>
      [] OTHER ->
           <<"0","8","_","a","r","c","h","i","v","e","/","l","e","g","a","c","y">>

Range(s) == { s[i] : i \in 1..Len(s) }

RECURSIVE SumSeq(_)
SumSeq(s) == IF s = <<>> THEN 0 ELSE Head(s) + SumSeq(Tail(s))

\* re.findall(r'^(#{1,6})\s+(.+)$', content, re.MULTILINE), as the set of
\* [pos, level] at which the pattern matches: one to six '#' at the start of
\* a line, whitespace, then a character other than a newline.  The titles
\* are left out.
extract_headers(content) ==
    LET line_starts == { i \in 1..Len(content) : i = 1 \/ content[i - 1] = "\n" }
    IN  { h \in [pos : line_starts, level : 1..6] :
            /\ h.pos + h.level <= Len(content)
            /\ \A k \in 0..(h.level - 1) : content[h.pos + k] = "#"
            /\ IsSpace(content[h.pos + h.level])
            /\ \E e \in (h.pos + h.level + 1)..Len(content) :
                  /\ content[e] # "\n"
                  /\ \A k \in (h.pos + h.level)..(e - 1) : IsSpace(content[k]) }

\* hashlib.md5(content.encode()).hexdigest(): a digest string that is equal
\* for equal contents and, MD5 collisions aside, different for different ones
md5_hexdigest(content) == <<"m","d","5",":">> \o content

\* set(text.split())
SplitSet(text) ==
    LET n == Len(text)
        starts == { i \in 1..n : /\ ~IsSpace(text[i])
                                 /\ i = 1 \/ IsSpace(text[i - 1]) }
        EndOf(i) == CHOOSE j \in i..n :
                        /\ j = n \/ IsSpace(text[j + 1])
                        /\ \A k \in i..j : ~IsSpace(text[k])
    IN  { SubSeq(text, i, EndOf(i)) : i \in starts }

\* similarity_ratio, as the exact fraction num/den (0/1 for an empty union)
similarity_ratio(text1, text2) ==
    LET set1 == SplitSet(text1)
        set2 == SplitSet(text2)
        intersection == set1 \cap set2
        union == set1 \cup set2
    IN  IF union # {}
        THEN [num |-> Cardinality(intersection), den |-> Cardinality(union)]
        ELSE [num |-> 0, den |-> 1]

\* ratio > 0.85
Above85(r) == 100 * r.num > 85 * r.den

\* the doc_info of scan_documents (links, code blocks, lists and keywords
\* are not part of any checked property and are left out)
doc_info(file_path, content) ==
    [ path          |-> file_path,
      name          |-> PathName(file_path),
      size          |-> Len(content),
      content       |-> content,
      headers       |-> extract_headers(content),
      category      |-> categorize_vsm_document(content, file_path),
      hash          |-> md5_hexdigest(content),
      quality_score |-> assess_quality(content, PathName(file_path)) ]

\* the "continue" of scan_documents: a README.md below the top directory
Skipped(file_path) ==
    /\ PathParent(file_path) # input_dir
    /\ PathName(file_path) = README \o DotMd

\* The orders in which rglob can yield the files of the tree
WalkOrders(files) ==
    LET n == Cardinality(files)
    IN  { w \in [1..n -> files] : \A i, j \in 1..n : w[i] = w[j] => i = j }

RECURSIVE scan_documents(_, _)
scan_documents(tree, walk) ==
    IF walk = <<>> THEN <<>>
    ELSE LET file_path == Head(walk)
         IN  IF Skipped(file_path)
             THEN scan_documents(tree, Tail(walk))
             ELSE <<doc_info(file_path, tree[file_path])>>
                    \o scan_documents(tree, Tail(walk))

similar_key(doc1, doc2) ==
    Cat3(<<"s","i","m","i","l","a","r","_">> \o doc1.name, <<"_">>, doc2.name)

\* pair_key with the similarity test made before the hash test
pair_key_similar_first(doc1, doc2) ==
    IF Above85(similarity_ratio(doc1.content, doc2.content))
    THEN similar_key(doc1, doc2)
    ELSE IF doc1.hash = doc2.hash THEN doc1.hash
         ELSE <<>>

\* The key under which find_duplicates files the pair (doc1, doc2), or
\* <<>> when the pair is not filed
pair_key(doc1, doc2) ==
    IF doc1.hash = doc2.hash THEN doc1.hash
    ELSE IF Above85(similarity_ratio(doc1.content, doc2.content))
         THEN similar_key(doc1, doc2)
         ELSE <<>>

\* find_duplicates with the inner loop starting at the document itself
find_duplicates_selfpair(docs) ==
    LET n == Len(docs)
        filed == { t \in { <<pair_key(docs[p[1]], docs[p[2]]), p[1], p[2]>> :
                             p \in { q \in (1..n) \X (1..n) : q[1] <= q[2] } } :
                     t[1] # <<>> }
    IN  [ k \in { t[1] : t \in filed } |->
            UNION { {docs[t[2]].path, docs[t[3]].path} : t \in { u \in filed : u[1] = k } } ]

\* find_duplicates: every document is compared with the documents after it;
\* the result maps each key to the set of paths filed under it (the lists
\* after list(set(...)))
find_duplicates(docs) ==
    LET n == Len(docs)
        filed == { t \in { <<pair_key(docs[p[1]], docs[p[2]]), p[1], p[2]>> :
                             p \in { q \in (1..n) \X (1..n) : q[1] < q[2] } } :
                     t[1] # <<>> }
    IN  [ k \in { t[1] : t \in filed } |->
            UNION { {docs[t[2]].path, docs[t[3]].path} : t \in { u \in filed : u[1] = k } } ]

\* Counter(doc['category'] for doc in self.documents)
category_counts(docs) ==
    [ c \in { docs[i].category : i \in 1..Len(docs) } |->
        Cardinality({ i \in 1..Len(docs) : docs[i].category = c }) ]

\* {doc['name']: doc['quality_score'] for doc in self.documents}: a later
\* document replaces the entry of an earlier one of the same name
quality_scores(docs) ==
    [ nm \in { docs[i].name : i \in 1..Len(docs) } |->
        LET last == CHOOSE i \in 1..Len(docs) :
                        /\ docs[i].name = nm
                        /\ \A j \in (i + 1)..Len(docs) : docs[j].name # nm
        IN  docs[last].quality_score ]

RECURSIVE SumValues(_, _)
SumValues(f, keys) ==
    IF keys = {} THEN 0
    ELSE LET k == CHOOSE x \in keys : TRUE
         IN  f[k] + SumValues(f, keys \ {k})

\* sum(quality_scores.values()) / len(quality_scores) if quality_scores else 0
avg_quality(scores) ==
    IF DOMAIN scores # {}
    THEN [num |-> SumValues(scores, DOMAIN scores), den |-> Cardinality(DOMAIN scores)]
    ELSE [num |-> 0, den |-> 1]

NamesOf(docs) == [ i \in 1..Len(docs) |-> docs[i].name ]

\* the issues of analyze_patterns
document_issues(docs) ==
    LET Low(d)      == d.quality_score < 80
        Unprof(d)   == Low(d) /\ HasProfanity(d.content)
        Short(d)    == Low(d) /\ Len(d.content) < ShortLen
        Naming(d)   == Low(d) /\ (isupper(d.name)
                                  \/ Cardinality({ i \in 1..Len(d.name) : d.name[i] = "_" }) > 3)
        NoHeader(d) == Low(d) /\ d.headers = {}
    IN  [ unprofessional_language |-> NamesOf(SelectSeq(docs, Unprof)),
          too_short               |-> NamesOf(SelectSeq(docs, Short)),
          poor_naming             |-> NamesOf(SelectSeq(docs, Naming)),
          no_headers              |-> NamesOf(SelectSeq(docs, NoHeader)) ]

\* self.patterns as analyze_patterns sets it (the keyword table is left out)
analyze_patterns(docs) ==
    [ categories      |-> category_counts(docs),
      average_quality |-> avg_quality(quality_scores(docs)),
      quality_scores  |-> quality_scores(docs),
      issues          |-> document_issues(docs) ]

CountOf(counts, c) == IF c \in DOMAIN counts THEN counts[c] ELSE 0

generate_recommendations(pats, docs) ==
    (IF pats.average_quality.num < 85 * pats.average_quality.den
     THEN <<"Improve overall documentation quality">> ELSE <<>>)
    \o (IF pats.issues.unprofessional_language # <<>>
        THEN <<"Clean up unprofessional language in documents">> ELSE <<>>)
    \o (IF pats.issues.poor_naming # <<>>
        THEN <<"Rename files to use lowercase with hyphens">> ELSE <<>>)
    \o (IF DOMAIN find_duplicates(docs) # {}
        THEN <<"Consolidate duplicate documentation">> ELSE <<>>)
    \o (IF CountOf(pats.categories, "api_reference") < 2
        THEN <<"Expand API reference documentation">> ELSE <<>>)
    \o (IF CountOf(pats.categories, "vsm_systems") < 5
        THEN <<"Document each VSM system (1-5) separately">> ELSE <<>>)

\* target_dir / clean_name below output_dir
target_path_of(doc) ==
    JoinPath(JoinPath(output_dir, category_mapping(doc.category)),
             generate_clean_filename(doc))

\* f with f[k] = v
Put(f, k, v) == [ x \in (DOMAIN f) \cup {k} |-> IF x = k THEN v ELSE f[x] ]

\* The loop of reorganize_documents over docs[i..]: st holds the output
\* files, content_map and rename_map so far
RECURSIVE reorganize_from(_, _, _)
reorganize_from(docs, i, st) ==
    IF i > Len(docs) THEN st
    ELSE LET doc == docs[i]
             clean_name == generate_clean_filename(doc)
             target_path == target_path_of(doc)
         IN  reorganize_from(docs, i + 1,
                 [ files       |-> Put(st.files, target_path, doc.content),
                   content_map |-> Put(st.content_map, doc.path, target_path),
                   rename_map  |-> IF doc.name # clean_name
                                   THEN Put(st.rename_map, doc.name, clean_name)
                                   ELSE st.rename_map ])

(***************************************************************************)
(* Input trees                                                             *)
(***************************************************************************)
MaxDocs == 3

TreePaths ==
    { <<"d","o","c","s","/","m","y","_","n","o","t","e","s",".","m","d">>,
      <<"d","o","c","s","/","m","y","-","n","o","t","e","s",".","m","d">>,
      <<"d","o","c","s","/","a","/","m","y","-","n","o","t","e","s",".","m","d">>,
      <<"d","o","c","s","/","a","/","R","E","A","D","M","E",".","m","d">>,
      <<"d","o","c","s","/","R","E","A","D","M","E",".","m","d">> }

\* a short document with a header, a near-duplicate of it (8 of 9 tokens
\* shared), and a document of 500 characters with no header
TreeContents ==
    { <<"#"," ","T","\n","a"," ","b"," ","c"," ","d"," ","e"," ","f">>,
      <<"#"," ","T","\n","a"," ","b"," ","c"," ","d"," ","e"," ","f"," ","g">>,
      MakeContent(<<>>, <<"D","a","m","n"," ">>, ShortLen) }

Trees ==
    UNION { [P -> TreeContents] : P \in { Q \in SUBSET TreePaths : Cardinality(Q) <= MaxDocs } }

Init ==
    /\ pc = "setup"
    /\ fs \in Trees
    /\ out_dirs = {}
    /\ documents = <<>>
    /\ patterns = <<>>
    /\ report = <<>>
    /\ content_map = <<>>
    /\ rename_map = <<>>
    /\ out_files = <<>>
    /\ input = <<>>
    /\ output = <<>>

setup_directories ==
    /\ pc = "setup"
    /\ out_dirs' = {output_dir} \cup { JoinPath(output_dir, d) : d \in dirs }
    /\ pc' = "scan"
    /\ UNCHANGED <<fs, documents, patterns, report, content_map, rename_map,
                   out_files, input, output>>

ScanDocuments ==
    /\ pc = "scan"
    /\ \E walk \in WalkOrders(DOMAIN fs) : documents' = scan_documents(fs, walk)
    /\ pc' = "analyze"
    /\ UNCHANGED <<fs, out_dirs, patterns, report, content_map, rename_map,
                   out_files, input, output>>

AnalyzePatterns ==
    /\ pc = "analyze"
    /\ patterns' = analyze_patterns(documents)
    /\ pc' = "report"
    /\ UNCHANGED <<fs, out_dirs, documents, report, content_map, rename_map,
                   out_files, input, output>>

\* The report dict is built from find_duplicates and the recommendations;
\* json.dump then raises TypeError on the Path objects of a duplicate group,
\* which ends run(), and writes the report when there is no group.
generate_analysis_report ==
    /\ pc = "report"
    /\ report' = [ total_documents |-> Len(documents),
                   patterns        |-> patterns,
                   duplicates      |-> find_duplicates(documents),
                   recommendations |-> generate_recommendations(patterns, documents) ]
    /\ pc' = IF DOMAIN report'.duplicates # {} THEN "report_failed" ELSE "reorganize"
    /\ UNCHANGED <<fs, out_dirs, documents, patterns, content_map, rename_map,
                   out_files, input, output>>

\* shutil.copy2 raises when the target directory does not exist
reorganize_documents ==
    /\ pc = "reorganize"
    /\ IF \A i \in 1..Len(documents) :
             JoinPath(output_dir, category_mapping(documents[i].category)) \in out_dirs
       THEN LET st == reorganize_from(documents, 1,
                          [files |-> out_files, content_map |-> content_map,
                           rename_map |-> <<>>])
            IN  /\ out_files' = st.files
                /\ content_map' = st.content_map
                /\ rename_map' = st.rename_map
                /\ pc' = "done"
       ELSE /\ pc' = "failed"
            /\ UNCHANGED <<out_files, content_map, rename_map>>
    /\ UNCHANGED <<fs, out_dirs, documents, patterns, report, input, output>>

Next ==
    \/ setup_directories
    \/ ScanDocuments
    \/ AnalyzePatterns
    \/ generate_analysis_report
    \/ reorganize_documents

Spec == Init /\ [][Next]_vars

Analyzed == pc \in {"report", "report_failed", "reorganize", "done"}

Reported == pc \in {"report_failed", "reorganize", "done"}

\* C3: after reorganize_documents, the file at the target path recorded in
\* content_map for each scanned document exists and holds its content.
C3_EveryDocumentCopied ==
    pc = "done" =>
        \A i \in 1..Len(documents) :
            LET d == documents[i]
            IN  /\ d.path \in DOMAIN content_map
                /\ content_map[d.path] \in DOMAIN out_files
                /\ out_files[content_map[d.path]] = d.content

\* C4: two scanned documents with identical content have the same hash and
\* find_duplicates puts both paths into the group keyed by that hash.
C4_IdenticalGroupedByHash ==
    Reported =>
        \A i, j \in 1..Len(documents) :
            (i # j /\ documents[i].content = documents[j].content) =>
                /\ documents[i].hash = documents[j].hash
                /\ documents[i].hash \in DOMAIN report.duplicates
                /\ {documents[i].path, documents[j].path}
                       \subseteq report.duplicates[documents[i].hash]

C4_Witness ==
    /\ Reported
    /\ \E i, j \in 1..Len(documents) :
          /\ i # j
          /\ documents[i].content = documents[j].content
          /\ documents[i].path # documents[j].path
          /\ documents[i].hash \in DOMAIN report.duplicates

\* identical content, or token-set Jaccard similarity above 0.85
DuplicatePair(d1, d2) ==
    \/ d1.content = d2.content
    \/ Above85(similarity_ratio(d1.content, d2.content))

DuplicatePairs ==
    { p \in (1..Len(documents)) \X (1..Len(documents)) :
        p[1] < p[2] /\ DuplicatePair(documents[p[1]], documents[p[2]]) }

\* C5: when exactly one pair of scanned documents is a duplicate pair,
\* find_duplicates returns exactly one group, holding exactly the two paths
\* of that pair.
C5_OnePairOneGroup ==
    (Reported /\ Cardinality(DuplicatePairs) = 1) =>
        LET p == CHOOSE q \in DuplicatePairs : TRUE
        IN  /\ Cardinality(DOMAIN report.duplicates) = 1
            /\ \A k \in DOMAIN report.duplicates :
                  report.duplicates[k] = {documents[p[1]].path, documents[p[2]].path}

C5_Witness ==
    /\ Reported
    /\ Len(documents) = 3
    /\ Cardinality(DuplicatePairs) = 1
    /\ \E p \in DuplicatePairs : documents[p[1]].content # documents[p[2]].content
    /\ Cardinality(DOMAIN report.duplicates) = 1

\* C8: every scanned document with unprofessional language, with fewer than
\* 500 characters, or with no headers is listed under the matching issue,
\* whatever its quality score.
C8_IssuesListEveryOffender ==
    Analyzed =>
        \A i \in 1..Len(documents) :
            LET d == documents[i]
            IN  /\ HasProfanity(d.content)
                     => d.name \in Range(patterns.issues.unprofessional_language)
                /\ Len(d.content) < ShortLen
                     => d.name \in Range(patterns.issues.too_short)
                /\ d.headers = {}
                     => d.name \in Range(patterns.issues.no_headers)

\* C10: average_quality times the number of scanned documents equals the
\* sum of their quality scores, and the average of an empty corpus is 0.
C10_AverageIsMean ==
    Analyzed =>
        /\ patterns.average_quality.num * Len(documents)
             = SumSeq([i \in 1..Len(documents) |-> documents[i].quality_score])
                 * patterns.average_quality.den
        /\ Len(documents) = 0 => patterns.average_quality.num = 0


====
